---------------------------- MODULE Spec2Model ----------------------------
(***************************************************************************)
(* A model of zswitten/trlx:                                               *)
(*   - trlx/orchestrator/offline_orchestrator.py: tokenize_dialogue and    *)
(*     OfflineOrchestrator.make_experience (specification SpecOffline);    *)
(*   - test_trl_deepspeed_accelerate.py: the PPO training loop             *)
(*     (specification SpecPPO, and SpecPPOWide for batch sizes that the    *)
(*     forward batch size need not divide) and its reward / GAE            *)
(*     arithmetic (specification SpecGAE).                                 *)
(***************************************************************************)
EXTENDS Integers, Sequences, FiniteSets, TLC

(***************************************************************************)
(* Bounds of the model.                                                    *)
(***************************************************************************)
MaxTurns == 3
MaxPhraseLen == 2
MaxLength == 4
MaxCalls == 2
MaxBatch == 2
WideBatch == 3
MaxPpoEpochs == 2
MaxQueryLen == 2
MaxGenLen == 3
MaxOuter == 2

VARIABLES
    \* ---- offline orchestrator ----
    samples,          \* the caller's dialogue objects (a list of them)
    max_length,       \* the max_length argument
    truncation_side,  \* tokenizer.truncation_side
    rets,             \* what each call so far returned / built, oldest first
    store,            \* trainer.store: <<>> (unset) or <<the rollout storage>>
    raised,           \* whether the last call ended in an exception
    \* ---- PPO training loop ----
    cfg,              \* ppo_config: bs, fbs, ppo_epochs, input_size
    pc,               \* where the script is
    epoch,            \* outer iterations completed
    response_tensors, \* the length of each response of the batch, <<>> before rollout
    scores,           \* whether the batch has been scored
    sub,              \* the index i of the batched forward pass loop
    all_values,       \* per trajectory: the value cells stored
    all_logprobs,     \* per trajectory: the log-prob cells stored
    all_ref_logprobs, \* per trajectory: the reference log-prob cells stored
    all_rewards,      \* per trajectory: the reward cells
    idxs,             \* the shuffled index list
    pass,             \* inner passes completed in this iteration
    ti,               \* the index i of the trajectory loop of the pass
    loss_pos,         \* the cells the last loss computation used, <<>> before it
    grads,            \* <<>> when zeroed, <<idx>> after the backward of idx
    params,           \* the policy parameters, as the number of updates applied
    opt_step,         \* the optimizer state, as the number of steps taken
    params0,          \* params at the start of the outer iteration
    opt0,             \* opt_step at the start of the outer iteration
    nsteps,           \* optimizer steps issued in this outer iteration
    ops,              \* the runtime calls made for the current trajectory
    visited,          \* the trajectories the current pass has finished
    failed,           \* "" or the place the exception came from
    \* ---- rewards and advantages of one trajectory ----
    gpc,              \* where the computation is
    gen_len,          \* response.shape[1]
    logprob,          \* all_logprobs[idx], one number per response token
    ref_logprob,      \* all_ref_logprobs[idx]
    score,            \* scores[idx]
    values,           \* all_values[idx]
    rewards,          \* all_rewards[idx]
    gae_t,            \* the loop variable t of the backward recursion
    lastgaelam,
    advantages_reversed,
    advantages,
    returns

varsOffline == <<samples, max_length, truncation_side, rets, store, raised>>
varsConfig == <<cfg>>
varsBatch == <<response_tensors, scores, sub, all_values, all_logprobs,
               all_ref_logprobs, all_rewards>>
varsPass == <<idxs, pass, ti, loss_pos, ops, visited>>
varsModel == <<grads, params, opt_step, params0, opt0, nsteps>>
varsPPO == <<varsConfig, pc, epoch, varsBatch, varsPass, varsModel, failed>>
varsGAE == <<gpc, gen_len, logprob, ref_logprob, score, values, rewards, gae_t,
             lastgaelam, advantages_reversed, advantages, returns>>
vars == <<varsOffline, varsPPO, varsGAE>>

(***************************************************************************)
(* Python list slicing and small list helpers.                             *)
(***************************************************************************)
\* A slice bound i normalised against a list of length n (negative bounds
\* count from the end, everything is clamped to 0..n).
PyIndex(i, n) ==
    IF i < 0 THEN (IF i + n < 0 THEN 0 ELSE i + n)
             ELSE (IF i > n THEN n ELSE i)

\* s[i:]
PySliceFrom(s, i) == SubSeq(s, PyIndex(i, Len(s)) + 1, Len(s))

\* s[:j]
PySliceTo(s, j) == SubSeq(s, 1, PyIndex(j, Len(s)))

\* s[i:j]
PySlice(s, i, j) == SubSeq(s, PyIndex(i, Len(s)) + 1, PyIndex(j, Len(s)))

RECURSIVE SumLen(_)
\* sum(map(len, out))
SumLen(out) == IF out = <<>> THEN 0 ELSE Len(Head(out)) + SumLen(Tail(out))

RECURSIVE hstack(_)
\* torch.hstack / sum(sample, []): the concatenation of a list of 1-d lists
hstack(ls) == IF ls = <<>> THEN <<>> ELSE Head(ls) \o hstack(Tail(ls))

\* torch.arange(a, b)
arange(a, b) == [i \in 1..(b - a) |-> a + i - 1]

(***************************************************************************)
(* The tokenizer: text is a sequence of characters, tokenizer(text) maps   *)
(* every character to its id.  The two special tokens are one character    *)
(* each.                                                                   *)
(***************************************************************************)
Letters == {"a"}
bos_token == <<"<s>">>
eos_token == <<"</s>">>
vocab == ("<s>" :> 1) @@ ("</s>" :> 2) @@ ("a" :> 7)
bos_token_id == vocab[bos_token[1]]
eos_token_id == vocab[eos_token[1]]
tokenizer(phrase) == [i \in 1..Len(phrase) |-> vocab[phrase[i]]]

(***************************************************************************)
(* tokenize_dialogue                                                       *)
(***************************************************************************)
\* lines 22-26: the list the function works on.  A str is wrapped in a new
\* list, a tuple is copied, a list is used as it is.
DialogueList(d) ==
    IF d.kind = "str" THEN <<bos_token, d.val[1]>> ELSE d.val

\* line 26: dialogue[-1] += tokenizer.eos_token
AppendEos(dialogue) ==
    [dialogue EXCEPT ![Len(dialogue)] = dialogue[Len(dialogue)] \o eos_token]

\* lines 22-26: the caller's object after the call.  Only a list is the
\* very object line 26 assigns into.
CallerAfter(d) ==
    IF d.kind = "list" THEN [d EXCEPT !.val = AppendEos(d.val)] ELSE d

\* line 32: tokenizer(phrase).input_ids[-ctx_length:]
LeftTokens(phrase, ctx_length) == PySliceFrom(tokenizer(phrase), -ctx_length)

\* line 47: tokenizer(phrase).input_ids[:ctx_length]
RightTokens(phrase, ctx_length) == PySliceTo(tokenizer(phrase), ctx_length)

RECURSIVE LeftLoop(_, _, _, _)
\* lines 31-36: for phrase in reversed(dialogue), k is the phrase's position
LeftLoop(dialogue, k, ctx_length, out) ==
    IF k = 0 THEN out
    ELSE LET tokens == LeftTokens(dialogue[k], ctx_length)
             ctx == ctx_length - Len(tokens)
             out2 == <<tokens>> \o out
         IN  IF ctx = 0 THEN out2 ELSE LeftLoop(dialogue, k - 1, ctx, out2)

RECURSIVE RightLoop(_, _, _, _)
\* lines 46-51: for phrase in dialogue
RightLoop(dialogue, k, ctx_length, out) ==
    IF k > Len(dialogue) THEN out
    ELSE LET tokens == RightTokens(dialogue[k], ctx_length)
             ctx == ctx_length - Len(tokens)
             out2 == Append(out, tokens)
         IN  IF ctx = 0 THEN out2 ELSE RightLoop(dialogue, k + 1, ctx, out2)

\* line 41: whether the first kept token has to make room for <bos>
NeedsRoom(out, maxlen) == SumLen(out) = maxlen

\* line 40: the kept turns are odd in number
OddTurns(out) == Len(out) % 2 = 1

\* line 42 raises IndexError when out[0] is empty
PopRaises(out, maxlen) == OddTurns(out) /\ NeedsRoom(out, maxlen) /\ out[1] = <<>>

\* ForceBos without line 42: <bos> is inserted and nothing makes room for it
ForceBosNoPop(out, maxlen) ==
    IF OddTurns(out) THEN <<<<bos_token_id>>>> \o out ELSE out

\* lines 40-43
ForceBos(out, maxlen) ==
    IF OddTurns(out)
    THEN LET popped == IF NeedsRoom(out, maxlen)
                       THEN <<Tail(out[1])>> \o Tail(out)
                       ELSE out
         IN  <<<<bos_token_id>>>> \o popped
    ELSE out

\* lines 16-52.  kept: out as the truncation loop leaves it; out: the value
\* returned; raised: the call ended in an exception instead.
tokenize_dialogue(d, maxlen, side) ==
    LET dialogue == AppendEos(DialogueList(d))
        kept == IF side = "left"
                THEN LeftLoop(dialogue, Len(dialogue), maxlen, <<>>)
                ELSE RightLoop(dialogue, 1, maxlen, <<>>)
        fails == side = "left" /\ PopRaises(kept, maxlen)
    IN  [kept |-> kept,
         out |-> IF fails THEN <<>>
                 ELSE IF side = "left" THEN ForceBos(kept, maxlen) ELSE kept,
         raised |-> fails]

(***************************************************************************)
(* OfflineOrchestrator.make_experience                                     *)
(***************************************************************************)
\* PhraseActions without the shift by one: the positions of the tokens
PhraseActionsAtTokens(length, n) == arange(length, length + n)

\* line 84: the indices an output phrase of n tokens adds when the running
\* length is length
PhraseActions(length, n) == arange(length - 1, length + n - 1)

RECURSIVE PhraseLoop(_, _, _, _, _)
\* lines 78-87: the loop over the phrases of one sample
PhraseLoop(sample, k, length, isoutput, actions_ixs) ==
    IF k > Len(sample) THEN [length |-> length, actions_ixs |-> actions_ixs]
    ELSE PhraseLoop(sample, k + 1, length + Len(sample[k]), ~isoutput,
                    IF isoutput
                    THEN Append(actions_ixs, PhraseActions(length, Len(sample[k])))
                    ELSE actions_ixs)

\* line 89
StatesIxs(actions_ixs, length) == hstack(actions_ixs) \o <<length - 1>>

\* Dones without the final 0
DonesAllOne(states_ixs) == [i \in 1..Len(states_ixs) |-> 1]

\* line 90
Dones(states_ixs) == [i \in 1..Len(states_ixs) |-> IF i < Len(states_ixs) THEN 1 ELSE 0]

\* lines 119-121: zeros with the normalised return in the last slot.  The
\* return is a float the model keeps symbolic.
Rewards(actions_ixs) ==
    [i \in 1..Len(actions_ixs) |-> IF i < Len(actions_ixs) THEN "0" ELSE "ret"]

\* lines 77-92 and 119-131 for one sample
BuildSample(sample) ==
    LET r == PhraseLoop(sample, 1, 0, FALSE, <<>>)
        states_ixs == StatesIxs(r.actions_ixs, r.length)
    IN  [input_ids |-> hstack(sample),
         attention_mask |-> [i \in 1..SumLen(sample) |-> 1],
         rewards |-> Rewards(hstack(r.actions_ixs)),
         states_ixs |-> states_ixs,
         actions_ixs |-> hstack(r.actions_ixs),
         dones |-> Dones(states_ixs)]

\* line 91: torch.hstack of an empty list raises (a sample of a single
\* turn); lines 96-97 and 121 index past the end when a sample has no
\* action index at all.
BuildRaises(sample) ==
    \/ Len(sample) < 2
    \/ hstack(PhraseLoop(sample, 1, 0, FALSE, <<>>).actions_ixs) = <<>>

(***************************************************************************)
(* SpecOffline: calls of tokenize_dialogue and make_experience on the      *)
(* caller's objects.                                                       *)
(***************************************************************************)
RECURSIVE SeqsUpTo(_, _)
\* the sequences over S of length 0..n
SeqsUpTo(S, n) ==
    IF n = 0 THEN {<<>>}
    ELSE LET shorter == SeqsUpTo(S, n - 1)
         IN  shorter \cup {Append(s, x) : s \in {t \in shorter : Len(t) = n - 1}, x \in S}

Texts == SeqsUpTo(Letters, MaxPhraseLen)
TurnLists == SeqsUpTo(Texts, MaxTurns) \ {<<>>}
Dialogues ==
    {[kind |-> "str", val |-> <<t>>] : t \in Texts}
    \cup {[kind |-> k, val |-> v] : k \in {"tuple", "list"}, v \in TurnLists}

\* the lists of samples: one dialogue of any shape, or two short ones
ShortDialogues == {d \in Dialogues : SumLen(d.val) <= 1 /\ Len(d.val) <= 2}
SampleLists ==
    {<<d>> : d \in Dialogues} \cup {<<d, e>> : d \in ShortDialogues, e \in ShortDialogues}

\* no trajectory is being worked on
IdleGAE ==
    /\ gpc = "idle" /\ gen_len = 0
    /\ logprob = <<>> /\ ref_logprob = <<>> /\ score = 0 /\ values = <<>>
    /\ rewards = <<>> /\ gae_t = 0 /\ lastgaelam = 0
    /\ advantages_reversed = <<>> /\ advantages = <<>> /\ returns = <<>>

\* the training script is not running
IdlePPO ==
    /\ cfg = [bs |-> 1, fbs |-> 1, ppo_epochs |-> 1, input_size |-> 1]
    /\ pc = "idle"
    /\ epoch = 0
    /\ response_tensors = <<>> /\ scores = FALSE /\ sub = 0
    /\ all_values = <<>> /\ all_logprobs = <<>> /\ all_ref_logprobs = <<>>
    /\ all_rewards = <<>>
    /\ idxs = <<>> /\ pass = 0 /\ ti = 0 /\ loss_pos = <<>>
    /\ ops = <<>> /\ visited = <<>>
    /\ grads = <<>> /\ params = 0 /\ opt_step = 0 /\ params0 = 0 /\ opt0 = 0
    /\ nsteps = 0
    /\ failed = ""

InitOffline ==
    /\ IdlePPO
    /\ IdleGAE
    /\ samples \in SampleLists
    /\ max_length \in 0..MaxLength
    /\ truncation_side \in {"left", "right"}
    /\ rets = <<>>
    /\ store = <<>>
    /\ raised = FALSE

\* a direct call tokenize_dialogue(samples[i], tokenizer, max_length)
TokenizeDialogue ==
    /\ Len(rets) < MaxCalls
    /\ \E i \in 1..Len(samples) :
         LET r == tokenize_dialogue(samples[i], max_length, truncation_side)
         IN  /\ samples' = [samples EXCEPT ![i] = CallerAfter(samples[i])]
             /\ rets' = Append(rets, [fn |-> "tokenize_dialogue", arg |-> i,
                                      before |-> samples, tokenized |-> <<r>>,
                                      failed |-> r.raised])
             /\ raised' = r.raised
    /\ UNCHANGED <<max_length, truncation_side, store, varsPPO, varsGAE>>

RECURSIVE TokenizeAll(_, _, _)
\* line 71: the list comprehension; each call sees what the calls before it
\* left in the caller's objects
TokenizeAll(objs, maxlen, side) ==
    IF objs = <<>> THEN <<>>
    ELSE <<tokenize_dialogue(Head(objs), maxlen, side)>>
         \o TokenizeAll(Tail(objs), maxlen, side)

\* make_experience(samples, rewards, max_length), lines 64-132
MakeExperience ==
    /\ Len(rets) < MaxCalls
    /\ LET rs == TokenizeAll(samples, max_length, truncation_side)
           fails == \E i \in 1..Len(rs) : rs[i].raised \/ BuildRaises(rs[i].out)
       IN  /\ samples' = [i \in 1..Len(samples) |-> CallerAfter(samples[i])]
           /\ rets' = Append(rets, [fn |-> "make_experience", arg |-> 0,
                                    before |-> samples, tokenized |-> rs,
                                    failed |-> fails])
           /\ raised' = fails
           /\ store' = IF fails THEN store
                       ELSE <<[i \in 1..Len(rs) |-> BuildSample(rs[i].out)]>>
    /\ UNCHANGED <<max_length, truncation_side, varsPPO, varsGAE>>

NextOffline == TokenizeDialogue \/ MakeExperience

SpecOffline == InitOffline /\ [][NextOffline]_vars

(***************************************************************************)
(* The PPO training loop of test_trl_deepspeed_accelerate.py.              *)
(*                                                                         *)
(* Trajectories are numbered from 0 as in the script.  A tensor of model   *)
(* outputs is kept as the list of the sequence positions its cells belong  *)
(* to: cell p of an unpadded row is position p, and a row the collator     *)
(* padded on the left by pad cells holds position p - pad in cell p (a     *)
(* negative position is a pad token).                                      *)
(***************************************************************************)
\* the idle state of the offline orchestrator
IdleOffline ==
    /\ samples = <<>> /\ max_length = 0 /\ truncation_side = "left"
    /\ rets = <<>> /\ store = <<>> /\ raised = FALSE

\* the positions held by the n cells of a row padded on the left by pad
Row(n, pad) == [p \in 1..n |-> p - 1 - pad]

\* line 175: len(torch.cat([q, r])) of trajectory k
SeqLen(k) == cfg.input_size + response_tensors[k + 1]

\* line 172: range(int(bs / fbs))
NumSubBatches == cfg.bs \div cfg.fbs

\* lines 173-174: the trajectories of sub-batch i, [i*fbs:(i+1)*fbs]
SubBatch(i) ==
    PySlice([k \in 1..cfg.bs |-> k - 1], i * cfg.fbs, (i + 1) * cfg.fbs)

RECURSIVE MaxSeqLen(_)
\* line 175: the width the collator pads the rows of a sub-batch to
MaxSeqLen(ks) ==
    IF ks = <<>> THEN 0
    ELSE LET m == MaxSeqLen(Tail(ks))
         IN  IF SeqLen(Head(ks)) > m THEN SeqLen(Head(ks)) ELSE m

\* lines 93, 116, 175: the collator pads on the left (padding_side)
PadOf(k, width) == width - SeqLen(k)

\* lines 183-185: v[j, start-1:end-1]
StoredValues(k, width) ==
    LET start == cfg.input_size - 1
        end == cfg.input_size + response_tensors[k + 1] - 1
    IN  PySlice(Row(width, PadOf(k, width)), start - 1, end - 1)

\* lines 180, 183-186: logprobs[j, start:end]; logprobs has one cell per
\* logit of logits[:, :-1, :]
StoredLogprobs(k, width) ==
    LET start == cfg.input_size - 1
        end == cfg.input_size + response_tensors[k + 1] - 1
    IN  PySlice(Row(width - 1, PadOf(k, width)), start, end)

\* lines 182-185 for the rows of one sub-batch: all_values.append
EvalValues(ks) ==
    [j \in 1..cfg.fbs |->
        [traj |-> ks[j],
         pad |-> PadOf(ks[j], MaxSeqLen(ks)),
         cells |-> StoredValues(ks[j], MaxSeqLen(ks))]]

\* lines 182-187 for the rows of one sub-batch: all_logprobs.append and
\* all_ref_logprobs.append
EvalLogprobs(ks) ==
    [j \in 1..cfg.fbs |->
        [traj |-> ks[j],
         pad |-> PadOf(ks[j], MaxSeqLen(ks)),
         cells |-> StoredLogprobs(ks[j], MaxSeqLen(ks))]]

\* lines 215, 229, 233: vpred[:, -gen_len-1:-1] of the unpadded
\* model_input, gen_len being n
RecomputedValues(k) ==
    LET n == response_tensors[k + 1]
    IN  PySlice(Row(SeqLen(k), 0), -n - 1, -1)

\* lines 230, 233: logprob[:, -gen_len:]
RecomputedLogprobs(k) ==
    LET n == response_tensors[k + 1]
    IN  PySliceFrom(Row(SeqLen(k) - 1, 0), -n)

\* lines 205-207 index all_logprobs, all_values and all_rewards by idx;
\* lines 217-219 index values by t for every t < gen_len
LossRaises(idx) ==
    \/ idx >= Len(all_logprobs)
    \/ idx >= Len(all_values)
    \/ idx >= Len(all_rewards)
    \/ Len(all_values[idx + 1].cells) < response_tensors[idx + 1]

\* CurrentIdx reading the head of idxs whatever i is
CurrentIdxStuck == idxs[1]

\* line 204
CurrentIdx == idxs[ti + 1]

\* the permutations of 0..n-1 (what random.shuffle can leave in idxs)
Perms(n) ==
    {f \in [1..n -> 0..(n - 1)] : \A a, b \in 1..n : f[a] = f[b] => a = b}

\* the locals of an outer iteration before it has run
FreshBatch ==
    /\ response_tensors' = <<>> /\ scores' = FALSE /\ sub' = 0
    /\ all_values' = <<>> /\ all_logprobs' = <<>> /\ all_ref_logprobs' = <<>>
    /\ all_rewards' = <<>>
    /\ idxs' = <<>> /\ pass' = 0 /\ ti' = 0 /\ loss_pos' = <<>>
    /\ ops' = <<>> /\ visited' = <<>>

\* Abort as a handler restoring the start of the iteration would leave it
AbortRestoring(place) ==
    /\ pc' = "aborted"
    /\ failed' = place
    /\ FreshBatch
    /\ params' = params0 /\ opt_step' = opt0
    /\ UNCHANGED <<varsOffline, varsGAE, varsConfig, epoch, grads, params0, opt0,
                   nsteps>>

\* an exception leaves the loop: nothing catches it, the script ends, and
\* the model and the optimizer stay as the last statement left them
Abort(place) ==
    /\ pc' = "aborted"
    /\ failed' = place
    /\ FreshBatch
    /\ UNCHANGED <<varsOffline, varsGAE, varsConfig, epoch, varsModel>>

Configs(maxbs, maxep) ==
    {c \in [bs : 1..maxbs, fbs : 1..maxbs, ppo_epochs : 1..maxep,
            input_size : 1..MaxQueryLen] : c.fbs <= c.bs}

InitLoop ==
    /\ IdleOffline
    /\ IdleGAE
    /\ pc = "rollout"
    /\ epoch = 0
    /\ response_tensors = <<>> /\ scores = FALSE /\ sub = 0
    /\ all_values = <<>> /\ all_logprobs = <<>> /\ all_ref_logprobs = <<>>
    /\ all_rewards = <<>>
    /\ idxs = <<>> /\ pass = 0 /\ ti = 0 /\ loss_pos = <<>>
    /\ ops = <<>> /\ visited = <<>>
    /\ grads = <<>> /\ params = 0 /\ opt_step = 0 /\ params0 = 0 /\ opt0 = 0
    /\ nsteps = 0
    /\ failed = ""

InitPPO == cfg \in Configs(MaxBatch, MaxPpoEpochs) /\ InitLoop

\* a wider batch, a single inner pass
InitPPOWide == cfg \in Configs(WideBatch, 1) /\ InitLoop

\* lines 139-153: one response per query; a response of one token is left
\* 0-dimensional by squeeze()
Rollout ==
    /\ pc = "rollout"
    /\ response_tensors' \in [1..cfg.bs -> 1..MaxGenLen]
    /\ pc' = "score"
    /\ UNCHANGED <<varsOffline, varsGAE, varsConfig, epoch, scores, sub, all_values,
                   all_logprobs, all_ref_logprobs, all_rewards, varsPass,
                   varsModel, failed>>

\* lines 155-162
Score ==
    /\ pc = "score"
    /\ scores' = TRUE
    /\ pc' = "lengths"
    /\ UNCHANGED <<varsOffline, varsGAE, varsConfig, epoch, response_tensors, sub,
                   all_values, all_logprobs, all_ref_logprobs, all_rewards,
                   varsPass, varsModel, failed>>

\* lines 165-171: r.size()[0] raises IndexError on a 0-dimensional tensor
ResponseLengths ==
    /\ pc = "lengths"
    /\ IF \E k \in 1..cfg.bs : response_tensors[k] = 1
       THEN Abort("lengths")
       ELSE /\ pc' = "evaluate"
            /\ sub' = 0
            /\ all_values' = <<>> /\ all_logprobs' = <<>>
            /\ all_ref_logprobs' = <<>>
            /\ UNCHANGED <<varsOffline, varsGAE, varsConfig, epoch, response_tensors,
                           scores, all_rewards, varsPass, varsModel, failed>>

\* lines 172-187: one round of the batched forward pass loop
EvaluateSubBatch ==
    /\ pc = "evaluate"
    /\ sub < NumSubBatches
    /\ all_values' = all_values \o EvalValues(SubBatch(sub))
    /\ all_logprobs' = all_logprobs \o EvalLogprobs(SubBatch(sub))
    /\ all_ref_logprobs' =
           all_ref_logprobs \o EvalLogprobs(SubBatch(sub))
    /\ sub' = sub + 1
    /\ UNCHANGED <<varsOffline, varsGAE, varsConfig, pc, epoch, response_tensors, scores,
                   all_rewards, varsPass, varsModel, failed>>

\* lines 190-200: zip stops at the shortest of scores, all_logprobs and
\* all_ref_logprobs; the score goes to the last cell
ComputeRewards ==
    /\ pc = "evaluate"
    /\ sub = NumSubBatches
    /\ all_rewards' =
         [k \in 1..(IF Len(all_logprobs) < cfg.bs THEN Len(all_logprobs) ELSE cfg.bs) |->
            [traj |-> all_logprobs[k].traj,
             cells |-> all_logprobs[k].cells,
             score_at |-> Len(all_logprobs[k].cells)]]
    /\ idxs' = [k \in 1..cfg.bs |-> k - 1]
    /\ pass' = 0
    /\ pc' = "shuffle"
    /\ UNCHANGED <<varsOffline, varsGAE, varsConfig, epoch, response_tensors, scores, sub,
                   all_values, all_logprobs, all_ref_logprobs, ti, loss_pos,
                   ops, visited, varsModel, failed>>

\* lines 201-203: the next inner pass
Shuffle ==
    /\ pc = "shuffle"
    /\ pass < cfg.ppo_epochs
    /\ idxs' \in Perms(cfg.bs)
    /\ ti' = 0
    /\ visited' = <<>>
    /\ pc' = "loss"
    /\ UNCHANGED <<varsOffline, varsGAE, varsConfig, epoch, varsBatch, pass, loss_pos,
                   ops, varsModel, failed>>

\* lines 204-254: the loss of trajectory idxs[i]
ComputeLoss ==
    /\ pc = "loss"
    /\ IF LossRaises(CurrentIdx)
       THEN Abort("loss")
       ELSE /\ loss_pos' = <<[idx |-> CurrentIdx,
                             pad |-> all_values[CurrentIdx + 1].pad,
                             old_values |-> all_values[CurrentIdx + 1].cells,
                             vpred |-> RecomputedValues(CurrentIdx),
                             old_logprob |-> all_logprobs[CurrentIdx + 1].cells,
                             logprob |-> RecomputedLogprobs(CurrentIdx)]>>
            /\ ops' = <<>>
            /\ pc' = "backward"
            /\ UNCHANGED <<varsOffline, varsGAE, varsConfig, epoch, varsBatch, idxs, pass,
                           ti, visited, varsModel, failed>>

\* line 257: accelerator.backward(loss)
Backward ==
    /\ pc = "backward"
    /\ grads' = <<CurrentIdx>>
    /\ ops' = Append(ops, "backward")
    /\ pc' = "barrier"
    /\ UNCHANGED <<varsOffline, varsGAE, varsConfig, epoch, varsBatch, idxs, pass, ti,
                   loss_pos, visited, params, opt_step, params0, opt0, nsteps,
                   failed>>

\* line 258: accelerator.wait_for_everyone()
Barrier ==
    /\ pc = "barrier"
    /\ ops' = Append(ops, "wait_for_everyone")
    /\ pc' = "step"
    /\ UNCHANGED <<varsOffline, varsGAE, varsConfig, epoch, varsBatch, idxs, pass, ti,
                   loss_pos, visited, varsModel, failed>>

\* line 259: optimizer.step()
Step ==
    /\ pc = "step"
    /\ params' = params + 1
    /\ opt_step' = opt_step + 1
    /\ nsteps' = nsteps + 1
    /\ ops' = Append(ops, "step")
    /\ pc' = "zero_grad"
    /\ UNCHANGED <<varsOffline, varsGAE, varsConfig, epoch, varsBatch, idxs, pass, ti,
                   loss_pos, visited, grads, params0, opt0, failed>>

\* line 260: optimizer.zero_grad(), then the next trajectory or the next pass
ZeroGrad ==
    /\ pc = "zero_grad"
    /\ grads' = <<>>
    /\ ops' = Append(ops, "zero_grad")
    /\ visited' = Append(visited, CurrentIdx)
    /\ IF ti + 1 < cfg.bs
       THEN ti' = ti + 1 /\ pass' = pass /\ pc' = "loss"
       ELSE ti' = 0 /\ pass' = pass + 1 /\ pc' = "shuffle"
    /\ UNCHANGED <<varsOffline, varsGAE, varsConfig, epoch, varsBatch, idxs, loss_pos,
                   params, opt_step, params0, opt0, nsteps, failed>>

\* lines 137, 201, 265: the inner passes are over; the next batch, or the
\* end of training
IterationEnd ==
    /\ pc = "shuffle"
    /\ pass = cfg.ppo_epochs
    /\ epoch' = epoch + 1
    /\ IF epoch + 1 < MaxOuter
       THEN /\ pc' = "rollout"
            /\ FreshBatch
            /\ params0' = params /\ opt0' = opt_step /\ nsteps' = 0
            /\ UNCHANGED <<grads, params, opt_step>>
       ELSE /\ pc' = "finished"
            /\ UNCHANGED <<varsBatch, varsPass, varsModel>>
    /\ UNCHANGED <<varsOffline, varsGAE, varsConfig, failed>>

\* the places of an outer iteration
LoopPlaces == {"rollout", "score", "lengths", "evaluate", "shuffle", "loss",
               "backward", "barrier", "step", "zero_grad"}

\* lines 137-260 hold no try: an exception raised by a collaborator (the
\* generation, the reward model, a forward or backward pass, the barrier,
\* the optimizer) ends the script where it is raised
Fail ==
    /\ pc \in LoopPlaces
    /\ Abort(pc)

NextPPO ==
    \/ Rollout \/ Score \/ ResponseLengths \/ EvaluateSubBatch \/ ComputeRewards
    \/ Shuffle \/ ComputeLoss \/ Backward \/ Barrier \/ Step \/ ZeroGrad
    \/ IterationEnd \/ Fail

SpecPPO == InitPPO /\ [][NextPPO]_vars

SpecPPOWide == InitPPOWide /\ [][NextPPO]_vars

(***************************************************************************)
(* The rewards and the advantages of one trajectory (lines 190-197 and     *)
(* 213-224).  The script computes in floating point; the model computes    *)
(* exactly, every quantity being held as an integer number of 1/Scale.     *)
(***************************************************************************)
GaeMaxLen == 2

\* ppo_config: gamma = 1, lam = 0.95 = 19/20, init_kl_coef = 0.2 = 1/5
gamma == 1
LamNum == 19
LamDen == 20
KlCoefNum == 1
KlCoefDen == 5

\* enough digits for init_kl_coef and for lam multiplied in at every step
Scale == KlCoefDen * LamDen ^ GaeMaxLen

\* the numbers the model's outputs and the scorer's are drawn from
LogprobVals == {-2, -1}
RefLogprobVals == {-3, -1}
ValueVals == {-1, 0, 2}
ScoreVals == {0, 1}

\* lines 192-193: non_score_reward = -init_kl_coef * (logprob - ref_logprob)
NonScoreReward(lp, ref) == (0 - KlCoefNum * ((lp - ref) * Scale)) \div KlCoefDen

\* lines 191-197: reward = non_score_reward.clone(); reward[-1] += score
ComputeReward(lps, refs, sc) ==
    [j \in 1..Len(lps) |->
        NonScoreReward(lps[j], refs[j]) + (IF j = Len(lps) THEN sc * Scale ELSE 0)]

\* line 218: values[:, t + 1] if t < gen_len - 1 else 0.0
NextValues(vs, n, tv) == IF tv < n - 1 THEN vs[tv + 2] ELSE 0

\* line 219
Delta(rs, vs, n, tv) == rs[tv + 1] + gamma * NextValues(vs, n, tv) - vs[tv + 1]

\* GaeLam without lam
GaeLamNoLam(delta, last) == delta + gamma * last

\* line 220
GaeLam(delta, last) == delta + (gamma * LamNum * last) \div LamDen

\* line 222: advantages_reversed[::-1]
Reversed(s) == [j \in 1..Len(s) |-> s[Len(s) + 1 - j]]

InitGAE ==
    /\ IdleOffline
    /\ IdlePPO
    /\ gpc = "rewards"
    /\ gen_len \in 1..GaeMaxLen
    /\ logprob \in [1..gen_len -> LogprobVals]
    /\ ref_logprob \in [1..gen_len -> RefLogprobVals]
    /\ score \in ScoreVals
    /\ values \in [1..gen_len -> {v * Scale : v \in ValueVals}]
    /\ rewards = <<>> /\ gae_t = 0 /\ lastgaelam = 0
    /\ advantages_reversed = <<>> /\ advantages = <<>> /\ returns = <<>>

\* lines 190-197, then lines 213-215
RewardStep ==
    /\ gpc = "rewards"
    /\ rewards' = ComputeReward(logprob, ref_logprob, score)
    /\ lastgaelam' = 0
    /\ advantages_reversed' = <<>>
    /\ gae_t' = gen_len - 1
    /\ gpc' = "gae"
    /\ UNCHANGED <<varsOffline, varsPPO, gen_len, logprob, ref_logprob, score,
                   values, advantages, returns>>

\* lines 217-221: one round of for t in reversed(range(gen_len))
GaeStep ==
    /\ gpc = "gae"
    /\ gae_t >= 0
    /\ lastgaelam' = GaeLam(Delta(rewards, values, gen_len, gae_t), lastgaelam)
    /\ advantages_reversed' = Append(advantages_reversed, lastgaelam')
    /\ gae_t' = gae_t - 1
    /\ UNCHANGED <<varsOffline, varsPPO, gpc, gen_len, logprob, ref_logprob,
                   score, values, rewards, advantages, returns>>

\* lines 222-224
GaeFinish ==
    /\ gpc = "gae"
    /\ gae_t < 0
    /\ advantages' = Reversed(advantages_reversed)
    /\ returns' = [j \in 1..gen_len |-> Reversed(advantages_reversed)[j] + values[j]]
    /\ gpc' = "done"
    /\ UNCHANGED <<varsOffline, varsPPO, gen_len, logprob, ref_logprob, score,
                   values, rewards, gae_t, lastgaelam, advantages_reversed>>

NextGAE == RewardStep \/ GaeStep \/ GaeFinish

SpecGAE == InitGAE /\ [][NextGAE]_vars

(***************************************************************************)
(* Claims about the offline orchestrator (checked under SpecOffline).      *)
(***************************************************************************)
\* C1: for every dialogue, every max_length and both truncation sides, the
\* token-id lists tokenize_dialogue returns have at most max_length tokens
\* in total.
C1_TotalWithinMaxLength ==
    \A k \in 1..Len(rets) : \A j \in 1..Len(rets[k].tokenized) :
        LET r == rets[k].tokenized[j]
        IN  ~r.raised => SumLen(r.out) <= max_length

\* C2: under left truncation, when the kept turns are odd in number the
\* result is one turn holding only the bos id, followed by the kept turns
\* with the first token of the first kept turn removed exactly when the
\* kept total equals max_length; otherwise the result is the kept turns;
\* the result always has an even number of turns.
C2_ForcedBosEvenTurns ==
    truncation_side = "left" =>
    \A k \in 1..Len(rets) : \A j \in 1..Len(rets[k].tokenized) :
        LET r == rets[k].tokenized[j]
            kept == r.kept
            out == r.out
        IN  /\ ~r.raised
            /\ Len(out) % 2 = 0
            /\ IF Len(kept) % 2 = 1
               THEN /\ Len(out) = Len(kept) + 1
                    /\ out[1] = <<bos_token_id>>
                    /\ out[2] = IF SumLen(kept) = max_length
                                THEN Tail(kept[1]) ELSE kept[1]
                    /\ SumLen(kept) = max_length => kept[1] # <<>>
                    /\ \A t \in 2..Len(kept) : out[t + 1] = kept[t]
               ELSE out = kept

\* C2 witness: a left-truncated call that kept an odd number of turns whose
\* total is exactly max_length, so that a token was removed to make room.
C2_Witness ==
    /\ truncation_side = "left"
    /\ \E k \in 1..Len(rets) : \E j \in 1..Len(rets[k].tokenized) :
        LET r == rets[k].tokenized[j]
        IN  /\ Len(r.kept) % 2 = 1
            /\ Len(r.kept) >= 3
            /\ SumLen(r.kept) = max_length
            /\ Len(r.out) = Len(r.kept) + 1

\* the rets entry of the make_experience call that built the store
BuiltBy(k) ==
    /\ k \in 1..Len(rets)
    /\ rets[k].fn = "make_experience"
    /\ ~rets[k].failed
    /\ \A m \in (k + 1)..Len(rets) :
           rets[m].fn # "make_experience" \/ rets[m].failed

\* the start offset, in the concatenated sequence, of turn t of a sample
TurnStart(sample, t) == SumLen(SubSeq(sample, 1, t - 1))

\* the positions of the concatenated sequence that hold the tokens of the
\* output turns (the turns at positions 2, 4, ... of the sample), ascending
OutputPositions(sample) ==
    hstack([t \in 1..Len(sample) |->
              IF t % 2 = 0
              THEN arange(TurnStart(sample, t), TurnStart(sample, t) + Len(sample[t]))
              ELSE <<>>])

\* C3 as stated: the action indices of every stored sample are exactly the
\* positions s, ..., s+n-1 of the tokens of its output turns.
C3_ActionsAreOutputPositions ==
    \A k \in 1..Len(rets) : BuiltBy(k) =>
        \A i \in 1..Len(store[1]) :
            store[1][i].actions_ixs = OutputPositions(rets[k].tokenized[i].out)

\* C3 amended: the action indices of every stored sample are the positions
\* of the tokens of its output turns, each shifted down by one: an output
\* turn occupying [s, s+n) contributes s-1, ..., s+n-2.
C3_ActionsPrecedeOutputPositions ==
    \A k \in 1..Len(rets) : BuiltBy(k) =>
        \A i \in 1..Len(store[1]) :
            LET pos == OutputPositions(rets[k].tokenized[i].out)
            IN  /\ store[1][i].input_ids = hstack(rets[k].tokenized[i].out)
                /\ store[1][i].actions_ixs = [j \in 1..Len(pos) |-> pos[j] - 1]

\* C3 witness: a stored sample with two non-empty output turns.
C3_Witness ==
    /\ store # <<>>
    /\ \E k \in 1..Len(rets) :
        /\ BuiltBy(k)
        /\ \E i \in 1..Len(store[1]) :
            LET sample == rets[k].tokenized[i].out
            IN  /\ Len(sample) = 4
                /\ sample[2] # <<>>
                /\ sample[4] # <<>>
                /\ sample[3] # <<>>

\* C4: every stored sample has one more state index than action indices,
\* one done flag per state index, the last done flag 0 and every other 1.
C4_StatesActionsDones ==
    store # <<>> =>
    \A i \in 1..Len(store[1]) :
        LET smp == store[1][i]
        IN  /\ Len(smp.states_ixs) = Len(smp.actions_ixs) + 1
            /\ Len(smp.dones) = Len(smp.states_ixs)
            /\ smp.dones[Len(smp.dones)] = 0
            /\ \A j \in 1..(Len(smp.dones) - 1) : smp.dones[j] = 1

\* C4 witness: a store of two samples, one with at least two actions.
C4_Witness ==
    /\ store # <<>>
    /\ Len(store[1]) = 2
    /\ \E i \in 1..Len(store[1]) : Len(store[1][i].actions_ixs) >= 2

\* the number of end-of-sequence ids at the end of a token list
RECURSIVE TrailingEos(_)
TrailingEos(tokens) ==
    IF tokens = <<>> \/ tokens[Len(tokens)] # eos_token_id THEN 0
    ELSE 1 + TrailingEos(SubSeq(tokens, 1, Len(tokens) - 1))

\* C10: a call leaves the caller's dialogue objects as they were, so every
\* call on the same objects returns the same turns, and the final turn of
\* an untruncated result ends with exactly one end-of-sequence id.
C10_CallerDialogueUnchanged ==
    \A k \in 1..Len(rets) :
        /\ rets[k].before = rets[1].before
        /\ samples = rets[1].before
        /\ \A m \in 1..Len(rets) :
              (rets[k].fn = rets[m].fn /\ rets[k].arg = rets[m].arg)
              => rets[k].tokenized = rets[m].tokenized
        /\ \A j \in 1..Len(rets[k].tokenized) :
              LET out == rets[k].tokenized[j].out
              IN  (out # <<>> /\ SumLen(rets[k].tokenized[j].kept) < max_length)
                  => TrailingEos(out[Len(out)]) = 1

(***************************************************************************)
(* Claims about the PPO training loop (checked under SpecPPO and           *)
(* SpecPPOWide).                                                           *)
(***************************************************************************)
TrainPlaces == {"shuffle", "loss", "backward", "barrier", "step", "zero_grad"}

\* C5: in an outer iteration the optimize phase runs ppo_epochs passes;
\* every pass visits each of the bs trajectories once, in the order of a
\* permutation of 0..bs-1; one optimizer step is issued per visit, so
\* ppo_epochs * bs in all; around every step the calls are backward (of
\* that trajectory's loss), wait_for_everyone, step, zero_grad.
C5_PassesVisitsSteps ==
    pc \in TrainPlaces \cup {"finished"} =>
        /\ pass <= cfg.ppo_epochs
        /\ nsteps = pass * cfg.bs + ti + (IF pc = "zero_grad" THEN 1 ELSE 0)
        /\ Len(visited) = IF pc \in {"shuffle", "finished"} /\ pass >= 1
                          THEN cfg.bs ELSE ti
        /\ \A a, b \in 1..Len(visited) : visited[a] = visited[b] => a = b
        /\ \A a \in 1..Len(visited) : visited[a] \in 0..(cfg.bs - 1)
        /\ (pc \in {"shuffle", "finished"} /\ pass = cfg.ppo_epochs)
              => nsteps = cfg.ppo_epochs * cfg.bs
        /\ pc = "finished" => pass = cfg.ppo_epochs
        /\ pc = "barrier" => ops = <<"backward">>
        /\ pc = "step" =>
              /\ ops = <<"backward", "wait_for_everyone">>
              /\ grads = <<CurrentIdx>>
              /\ loss_pos[1].idx = CurrentIdx
        /\ pc = "zero_grad" => ops = <<"backward", "wait_for_everyone", "step">>
        /\ (pc \in {"shuffle", "loss", "finished"} /\ visited # <<>>) =>
              /\ ops = <<"backward", "wait_for_everyone", "step", "zero_grad">>
              /\ grads = <<>>

\* C5 witness: the second of two passes over two trajectories has ended,
\* having visited them in the order 1, 0.
C5_Witness ==
    /\ pc = "shuffle"
    /\ cfg.bs = 2 /\ cfg.ppo_epochs = 2
    /\ pass = 2
    /\ visited = <<1, 0>>
    /\ nsteps = 4

\* C6 as stated: after a failure the parameters and the optimizer state are
\* those of the start of the outer iteration.
C6_NoPartialCommit ==
    pc = "aborted" => (params = params0 /\ opt_step = opt0)

\* C6 amended: a failure ends the iteration and the run; the optimizer
\* steps the iteration had completed stay applied, so the parameters and
\* the optimizer state are those of the start of the iteration only when
\* the failure comes before the iteration's first optimizer step, as every
\* failure in rollout, scoring and evaluation does.
C6_AbortKeepsCompletedSteps ==
    pc = "aborted" =>
        /\ params = params0 + nsteps
        /\ opt_step = opt0 + nsteps
        /\ failed \in {"rollout", "score", "lengths", "evaluate"} => nsteps = 0
        /\ failed \in {"zero_grad"} => nsteps > 0
        /\ ~ENABLED NextPPO

\* C6 witness: the second outer iteration failed after an optimizer step.
C6_Witness ==
    /\ pc = "aborted"
    /\ epoch = 1
    /\ nsteps > 0
    /\ params0 > 0
    /\ failed = "loss"

\* the whole batch as one sub-batch
WholeBatch == [k \in 1..cfg.bs |-> k - 1]

\* C7: whatever forward_batch_size is, the evaluation phase leaves bs
\* entries of values, log-probabilities and reference log-probabilities,
\* entry k being the one of trajectory k that a single sub-batch of the
\* whole batch gives.
C7_SubBatchingChangesNothing ==
    pc \in TrainPlaces =>
        /\ Len(all_values) = cfg.bs
        /\ Len(all_logprobs) = cfg.bs
        /\ Len(all_ref_logprobs) = cfg.bs
        /\ \A k \in 1..cfg.bs :
              /\ all_values[k].traj = k - 1
              /\ all_values[k].cells = StoredValues(k - 1, MaxSeqLen(WholeBatch))
              /\ all_logprobs[k].cells = StoredLogprobs(k - 1, MaxSeqLen(WholeBatch))
              /\ all_ref_logprobs[k].cells = all_logprobs[k].cells

\* C9: for a trajectory evaluated unpadded, the positions of the old
\* values are the positions of the recomputed value predictions, the
\* positions of the old log-probabilities are those of the recomputed
\* ones, and each has one position per response token.
C9_OldAndNewAtSamePositions ==
    (loss_pos # <<>> /\ loss_pos[1].pad = 0) =>
        /\ loss_pos[1].old_values = loss_pos[1].vpred
        /\ loss_pos[1].old_logprob = loss_pos[1].logprob
        /\ Len(loss_pos[1].vpred) = response_tensors[loss_pos[1].idx + 1]
        /\ Len(loss_pos[1].logprob) = response_tensors[loss_pos[1].idx + 1]

(***************************************************************************)
(* Claims about the rewards and the advantages (checked under SpecGAE).    *)
(***************************************************************************)
\* value[t] of the claim, 0 at t = gen_len (t from 0)
ValueAt(tv) == IF tv < gen_len THEN values[tv + 1] ELSE 0

\* advantage[t] of the claim, 0 at t = gen_len
AdvantageAt(tv) == IF tv < gen_len THEN advantages[tv + 1] ELSE 0

\* C8: reward[t] is -init_kl_coef * (logprob[t] - ref_logprob[t]), plus the
\* score at t = gen_len - 1 only; delta[t] = reward[t] + gamma*value[t+1]
\* - value[t] and advantage[t] = delta[t] + gamma*lam*advantage[t+1] for
\* every t, with value and advantage 0 at t = gen_len; return[t] =
\* advantage[t] + value[t]; for gen_len = 1, advantage[0] = reward[0] -
\* value[0].
C8_GaeRecursion ==
    gpc = "done" =>
        /\ Len(rewards) = gen_len /\ Len(advantages) = gen_len
        /\ Len(returns) = gen_len
        /\ \A tv \in 0..(gen_len - 1) :
              LET delta == rewards[tv + 1] + gamma * ValueAt(tv + 1) - ValueAt(tv)
              IN  /\ KlCoefDen * rewards[tv + 1] =
                        KlCoefDen * (IF tv = gen_len - 1 THEN score * Scale ELSE 0)
                        - KlCoefNum * (logprob[tv + 1] - ref_logprob[tv + 1]) * Scale
                  /\ LamDen * (advantages[tv + 1] - delta) =
                        gamma * LamNum * AdvantageAt(tv + 1)
                  /\ returns[tv + 1] = advantages[tv + 1] + values[tv + 1]
        /\ gen_len = 1 => advantages[1] = rewards[1] - values[1]

\* C8 witness: a finished computation over two tokens whose last advantage
\* is not zero, so that lam takes part.
C8_Witness ==
    /\ gpc = "done"
    /\ gen_len = 2
    /\ advantages[2] # 0
    /\ advantages[1] # rewards[1] + gamma * values[2] - values[1]

=============================================================================
